---- MODULE Spec2Model ----
(***************************************************************************)
(* State-machine models of the three scripts of the repository:            *)
(*   - test.IpGen/ipgen.py      generate_ips      (specification Spec)     *)
(*   - check_urls.py            main / check_url  (specification SpecUrls) *)
(*   - AINmap/scan_analyzer.py  main              (specification SpecScan) *)
(***************************************************************************)
EXTENDS Integers, Sequences, FiniteSets, Bags, TLC

VARIABLES
    \* ---- generate_ips (ipgen.py) ----
    ip_ranges,    \* argument ip_ranges: sequence of range strings (see RangeInputs)
    requested,    \* argument num_ips as passed by the caller
    num_ips,      \* local num_ips (reassigned at line 35)
    all_ips,      \* list all_ips
    idx,          \* number of entries of ip_ranges the for loop has consumed
    stdout,       \* what print() has written, in order
    unique_ips,   \* set unique_ips
    result,       \* returned string, as the bag of its comma-separated items
    pc,           \* position in generate_ips
    \* ---- check_urls.py ----
    urls,                  \* main: the list urls read from input.csv
    u_idx,                 \* main: number of URLs whose row has been written
    rows,                  \* main: rows written to output.csv after the header
    url,                   \* check_url: argument url
    ping_ok,               \* check_url: ping_ok
    status_code,           \* check_url: status_code
    elapsed,               \* check_url: elapsed
    redirect_url,          \* check_url: redirect_url
    redirect_status_code,  \* check_url: redirect_status_code
    http_log,              \* the requests.get calls of this check_url call, with their outcomes
    upc,                   \* position in check_urls.py
    \* ---- scan_analyzer.py ----
    f_string_ok,           \* whether the interpreter accepts line 90 (a backslash in an f-string expression)
    nmap_installed,        \* whether `nmap --version` succeeds
    targets_file,          \* targets.txt: <<>> when missing, else <<lines>>
    targets,               \* main: the list targets
    t_idx,                 \* main: number of targets the for loop has finished
    xml_output,            \* main: xml_output, <<>> for None
    scans,                 \* the targets nmap was run on, in order
    outcomes,              \* what the scanner and the analysis answered for each of them
    files,                 \* the report files on disk
    spc                    \* position in scan_analyzer.py

ipvars == <<ip_ranges, requested, num_ips, all_ips, idx, stdout, unique_ips, result, pc>>

(***************************************************************************)
(* Bounds of the model.                                                    *)
(***************************************************************************)
MaxRanges == 2
MaxUrls == 2
MaxElapsed == 1
MaxLines == 2

(***************************************************************************)
(* ipgen.py: constants of the request validation (line 16).                *)
(***************************************************************************)
MinCount == 10
MaxCount == 5000

(***************************************************************************)
(* Range strings.  A range string is kept as what ipaddress reads from it: *)
(* whether it has the form a.b.c.d/p at all, the four octets and the       *)
(* prefix length.  All inputs lie below 128.0.0.0, so that the integer     *)
(* value of an address fits the model checker's integers.                  *)
(***************************************************************************)
Range(o, p) == [syntax |-> TRUE, octets |-> o, prefix |-> p]
NotACidr == [syntax |-> FALSE, octets |-> <<0, 0, 0, 0>>, prefix |-> 0]

RangeInputs ==
    { Range(<<10, 0, 0, 0>>, 29),      \* 10.0.0.0/29   hosts .1 .. .6
      Range(<<10, 0, 0, 8>>, 29),      \* 10.0.0.8/29   hosts .9 .. .14
      Range(<<10, 0, 0, 0>>, 30),      \* 10.0.0.0/30   hosts .1 .2
      Range(<<10, 0, 0, 0>>, 31),      \* 10.0.0.0/31
      Range(<<10, 0, 0, 1>>, 32),      \* 10.0.0.1/32
      Range(<<10, 0, 0, 1>>, 30),      \* 10.0.0.1/30   host bits set
      NotACidr }                       \* "not-a-cidr"

CountInputs == {MinCount - 1, MinCount, MinCount + 2, MaxCount, MaxCount + 1}

SeqsUpTo(S, n) == UNION { [1..k -> S] : k \in 0..n }

(***************************************************************************)
(* ipaddress.ip_network(ip_range) (strict) and network.hosts(), line 22-24 *)
(***************************************************************************)
\* int(IPv4Address): the 32-bit value of the dotted quad
AddrInt(o) == ((o[1] * 256 + o[2]) * 256 + o[3]) * 256 + o[4]

\* str(ip): the dotted quad of a 32-bit value, as its four decimal fields
AddrStr(n) == << n \div (256 * 256 * 256), (n \div (256 * 256)) % 256,
                 (n \div 256) % 256, n % 256 >>

\* number of addresses of a block of prefix length p (hostmask + 1)
BlockSize(p) == 2 ^ (32 - p)

\* ip_network(ip_range) returns a network (TRUE) or raises ValueError (FALSE)
ParseOk(r) ==
    /\ r.syntax
    /\ \A k \in 1..4 : r.octets[k] \in 0..255
    /\ r.prefix \in 0..32
    /\ AddrInt(r.octets) % BlockSize(r.prefix) = 0        \* no host bits set

NetworkAddress(r) == AddrInt(r.octets)
BroadcastAddress(r) == AddrInt(r.octets) + BlockSize(r.prefix) - 1

\* network.hosts(): /31 yields both addresses, /32 the single address,
\* every other prefix the addresses strictly between network and broadcast
HostInts(r) ==
    IF r.prefix = 31 THEN NetworkAddress(r) .. BroadcastAddress(r)
    ELSE IF r.prefix = 32 THEN {NetworkAddress(r)}
    ELSE (NetworkAddress(r) + 1) .. (BroadcastAddress(r) - 1)

FirstHost(r) == IF r.prefix >= 31 THEN NetworkAddress(r) ELSE NetworkAddress(r) + 1

\* ips = [str(ip) for ip in network.hosts()]  (ascending order)
Hosts(r) == [k \in 1..Cardinality(HostInts(r)) |-> AddrStr(FirstHost(r) + k - 1)]

\* ",".join(unique_ips): every element of the set once, in the set's own order
Join(s) == SetToBag(s)

(***************************************************************************)
(* generate_ips                                                            *)
(***************************************************************************)
urlvars == <<urls, u_idx, rows, url, ping_ok, status_code, elapsed, redirect_url,
             redirect_status_code, http_log, upc>>
scanvars == <<f_string_ok, nmap_installed, targets_file, targets, t_idx, xml_output,
              scans, outcomes, files, spc>>
vars == <<ipvars, urlvars, scanvars>>

\* Python values of mixed type: status_code is 'N/A' or an int, and so on
S(s) == [str |-> s]
I(n) == [int |-> n]

\* the state of a script that is not running
IdleIpGen ==
    /\ ip_ranges = <<>> /\ requested = 0 /\ num_ips = 0 /\ all_ips = <<>> /\ idx = 0
    /\ stdout = <<>> /\ unique_ips = {} /\ result = EmptyBag /\ pc = "idle"
IdleUrls ==
    /\ urls = <<>> /\ u_idx = 0 /\ rows = <<>> /\ url = <<>> /\ ping_ok = FALSE
    /\ status_code = S("N/A") /\ elapsed = 0 /\ redirect_url = ""
    /\ redirect_status_code = S("") /\ http_log = <<>> /\ upc = "idle"
IdleScan ==
    /\ f_string_ok = FALSE /\ nmap_installed = FALSE /\ targets_file = <<>> /\ targets = <<>>
    /\ t_idx = 0 /\ xml_output = <<>> /\ scans = <<>> /\ outcomes = <<>> /\ files = {}
    /\ spc = "idle"

InitIpGen ==
    /\ ip_ranges \in SeqsUpTo(RangeInputs, MaxRanges)
    /\ requested \in CountInputs
    /\ num_ips = requested
    /\ all_ips = <<>>
    /\ idx = 0
    /\ stdout = <<>>
    /\ unique_ips = {}
    /\ result = EmptyBag
    /\ pc = "validate"

\* mutant of ValidCount: the upper bound is not checked
ValidCount_NoUpperBound(n) == MinCount <= n

\* line 16-17: if not 10 <= num_ips <= 5000: raise ValueError
ValidCount(n) == MinCount <= n /\ n <= MaxCount

Validate ==
    /\ pc = "validate"
    /\ pc' = IF ValidCount(num_ips) THEN "ranges" ELSE "raised"
    /\ UNCHANGED <<ip_ranges, requested, num_ips, all_ips, idx, stdout, unique_ips, result>>
    /\ UNCHANGED <<urlvars, scanvars>>

\* mutant of ProcessRange: an unparsable range ends the loop instead of being skipped
ProcessRange_AbortOnInvalid ==
    /\ pc = "ranges"
    /\ idx < Len(ip_ranges)
    /\ LET r == ip_ranges[idx + 1] IN
         IF ParseOk(r)
         THEN /\ all_ips' = all_ips \o Hosts(r)
              /\ stdout' = stdout
              /\ idx' = idx + 1
         ELSE /\ all_ips' = all_ips
              /\ stdout' = Append(stdout, [warning |-> "invalid_range", range |-> r])
              /\ idx' = Len(ip_ranges)
    /\ UNCHANGED <<ip_ranges, requested, num_ips, unique_ips, result, pc>>
    /\ UNCHANGED <<urlvars, scanvars>>

\* line 20-28: one iteration of the for loop
ProcessRange ==
    /\ pc = "ranges"
    /\ idx < Len(ip_ranges)
    /\ LET r == ip_ranges[idx + 1] IN
         IF ParseOk(r)
         THEN /\ all_ips' = all_ips \o Hosts(r)
              /\ stdout' = stdout
         ELSE /\ all_ips' = all_ips
              /\ stdout' = Append(stdout, [warning |-> "invalid_range", range |-> r])
    /\ idx' = idx + 1
    /\ UNCHANGED <<ip_ranges, requested, num_ips, unique_ips, result, pc>>
    /\ UNCHANGED <<urlvars, scanvars>>

\* mutant of CheckEmpty: no early return for an empty pool
CheckEmpty_NoEarlyReturn ==
    /\ pc = "ranges"
    /\ idx = Len(ip_ranges)
    /\ pc' = "clamp"
    /\ UNCHANGED <<ip_ranges, requested, num_ips, all_ips, idx, stdout, unique_ips, result>>
    /\ UNCHANGED <<urlvars, scanvars>>

\* line 30-31: if not all_ips: return ""
CheckEmpty ==
    /\ pc = "ranges"
    /\ idx = Len(ip_ranges)
    /\ IF all_ips = <<>>
       THEN /\ pc' = "returned"
            /\ result' = EmptyBag
       ELSE /\ pc' = "clamp"
            /\ result' = result
    /\ UNCHANGED <<ip_ranges, requested, num_ips, all_ips, idx, stdout, unique_ips>>
    /\ UNCHANGED <<urlvars, scanvars>>

\* line 33-37
Clamp ==
    /\ pc = "clamp"
    /\ IF num_ips > Len(all_ips)
       THEN /\ stdout' = Append(stdout, [warning |-> "clamped", requested |-> num_ips,
                                          available |-> Len(all_ips)])
            /\ num_ips' = Len(all_ips)
       ELSE /\ stdout' = stdout
            /\ num_ips' = num_ips
    /\ unique_ips' = {}
    /\ pc' = "loop"
    /\ UNCHANGED <<ip_ranges, requested, all_ips, idx, result>>
    /\ UNCHANGED <<urlvars, scanvars>>

\* mutant of LoopGuard: <= for <
LoopGuard_OffByOne == Cardinality(unique_ips) <= num_ips

\* line 38: while len(unique_ips) < num_ips
LoopGuard == Cardinality(unique_ips) < num_ips

\* line 39: unique_ips.add(random.choice(all_ips)); random.choice picks any index
Draw ==
    /\ pc = "loop"
    /\ LoopGuard
    /\ \E i \in 1..Len(all_ips) : unique_ips' = unique_ips \cup {all_ips[i]}
    /\ UNCHANGED <<ip_ranges, requested, num_ips, all_ips, idx, stdout, result, pc>>
    /\ UNCHANGED <<urlvars, scanvars>>

\* line 41: return ",".join(unique_ips)
Return ==
    /\ pc = "loop"
    /\ ~LoopGuard
    /\ result' = Join(unique_ips)
    /\ pc' = "returned"
    /\ UNCHANGED <<ip_ranges, requested, num_ips, all_ips, idx, stdout, unique_ips>>
    /\ UNCHANGED <<urlvars, scanvars>>

NextIpGen == Validate \/ ProcessRange \/ CheckEmpty \/ Clamp \/ Draw \/ Return

\* generate_ips is called; the other scripts are not running
Init == InitIpGen /\ IdleUrls /\ IdleScan

Spec == Init /\ [][NextIpGen]_vars

(***************************************************************************)
(* Properties of generate_ips                                              *)
(***************************************************************************)
\* the count the caller passed satisfies 10 <= count <= 5000
CountInBounds == requested >= MinCount /\ requested <= MaxCount
Items(s) == { s[k] : k \in 1..Len(s) }
Min(a, b) == IF a <= b THEN a ELSE b
Returned == pc = "returned"
Finished == pc \in {"returned", "raised"}

\* the ranges of the argument list that ip_network accepts
ValidRanges == { ip_ranges[k] : k \in { j \in 1..Len(ip_ranges) : ParseOk(ip_ranges[j]) } }

\* a usable host address of a range: inside the block, and neither its network
\* address nor its broadcast address
UsableHost(x, r) ==
    \E n \in NetworkAddress(r)..BroadcastAddress(r) :
        /\ x = AddrStr(n)
        /\ n # NetworkAddress(r)
        /\ n # BroadcastAddress(r)

\* every item of the returned string occurs in it once
EachOnce(b) == \A x \in BagToSet(b) : CopiesIn(x, b) = 1

\* the draw loop can still add an address, so a fair random choice ends it
SomeUndrawn == \E i \in 1..Len(all_ips) : all_ips[i] \notin unique_ips

\* C1: for a valid count and a pool of size >= count, generate_ips returns exactly
\* count addresses, pairwise distinct, each a usable host address of a supplied
\* valid range: while the loop is short of the count some pool entry is still
\* undrawn (so the call returns), and what is returned has these properties.
C1_ExactCountSample ==
    (CountInBounds /\ pc \in {"loop", "returned"} /\ Len(all_ips) >= requested)
    => /\ (pc = "loop" /\ LoopGuard => SomeUndrawn)
       /\ (Returned => /\ BagCardinality(result) = requested
                       /\ EachOnce(result)
                       /\ \A x \in BagToSet(result) : \E r \in ValidRanges : UsableHost(x, r))

\* C2: for a valid count greater than the size of a non-empty pool, generate_ips
\* returns exactly the full pool, every pooled address once: the loop can always
\* reach the clamped count, and the result holds as many items as the pool.
C2_ExhaustivePool ==
    (CountInBounds /\ pc \in {"loop", "returned"} /\ all_ips # <<>>
        /\ requested > Len(all_ips))
    => /\ (pc = "loop" /\ LoopGuard => SomeUndrawn)
       /\ (Returned => /\ BagToSet(result) = Items(all_ips)
                       /\ EachOnce(result)
                       /\ BagCardinality(result) = Len(all_ips))

\* C3: generate_ips eventually returns instead of looping forever: in every state
\* the call has finished or some step changes the state (a draw that adds nothing
\* leaves the loop where it was).
C3_ReturnsOrProgresses == Finished \/ ENABLED <<NextIpGen>>_vars

\* C4: a count outside 10..5000 raises before any range is processed: nothing is
\* parsed, nothing is printed, nothing is pooled or drawn, nothing is returned.
C4_InvalidCountRaisesFirst ==
    ~CountInBounds
    => /\ pc \in {"validate", "raised"}
       /\ idx = 0
       /\ all_ips = <<>>
       /\ stdout = <<>>
       /\ unique_ips = {}
       /\ result = EmptyBag

C4_Witness ==
    /\ pc = "raised"
    /\ requested > MaxCount
    /\ \E k \in 1..Len(ip_ranges) : ~ParseOk(ip_ranges[k])

\* C5: for every processed range that parses, neither its network address nor its
\* broadcast address is in the pool or in the returned result.
C5_NoNetworkOrBroadcast ==
    \A k \in 1..idx :
        ParseOk(ip_ranges[k])
        => \A a \in {NetworkAddress(ip_ranges[k]), BroadcastAddress(ip_ranges[k])} :
              /\ AddrStr(a) \notin Items(all_ips)
              /\ AddrStr(a) \notin BagToSet(result)

\* the pool of a list of parsable ranges: their host lists, concatenated in order
RECURSIVE PoolOf(_)
PoolOf(rs) == IF rs = <<>> THEN <<>> ELSE Hosts(Head(rs)) \o PoolOf(Tail(rs))
Unparsable(r) == ~ParseOk(r)
InvalidWarning(r) == [warning |-> "invalid_range", range |-> r]
IsInvalidWarning(w) == w.warning = "invalid_range"

\* C6: an unparsable range is skipped with one warning naming it and never aborts
\* the call: after k ranges the pool is the pool of the parsable ones among them,
\* the warnings are the unparsable ones in order, and no error is raised.
C6_InvalidRangesSkipped ==
    CountInBounds
    => /\ pc # "raised"
       /\ all_ips = PoolOf(SelectSeq(SubSeq(ip_ranges, 1, idx), ParseOk))
       /\ SelectSeq(stdout, IsInvalidWarning)
            = [k \in 1..Len(SelectSeq(SubSeq(ip_ranges, 1, idx), Unparsable)) |->
                 InvalidWarning(SelectSeq(SubSeq(ip_ranges, 1, idx), Unparsable)[k])]
       /\ (pc \notin {"validate", "ranges"} => idx = Len(ip_ranges))

C6_Witness ==
    /\ Returned
    /\ Len(ip_ranges) = 2
    /\ ~ParseOk(ip_ranges[1])
    /\ ParseOk(ip_ranges[2])
    /\ result # EmptyBag

\* C7: with a valid count and an empty pool after all ranges, generate_ips returns
\* the empty string, raising nothing, never reaching the clamp or the draw loop.
C7_EmptyPoolReturnsEmpty ==
    (CountInBounds /\ pc \notin {"validate", "ranges"} /\ all_ips = <<>>)
    => /\ Returned
       /\ result = EmptyBag
       /\ unique_ips = {}
       /\ num_ips = requested
       /\ \A k \in 1..Len(stdout) : IsInvalidWarning(stdout[k])

C7_Witness ==
    /\ Returned
    /\ all_ips = <<>>
    /\ Len(ip_ranges) = 2
    /\ \A k \in 1..2 : ~ParseOk(ip_ranges[k])

EffectiveCount == Min(requested, Len(all_ips))

C9_LoopState ==
    (pc \in {"loop", "returned"} /\ all_ips # <<>>)
    => /\ unique_ips \subseteq Items(all_ips)
       /\ Cardinality(unique_ips) <= EffectiveCount
       /\ (Returned => /\ BagToSet(result) = unique_ips
                       /\ EachOnce(result)
                       /\ BagCardinality(result) = EffectiveCount)

\* C9: in the draw loop the drawn set is a duplicate-free subset of the pool, never
\* shrinks and never exceeds min(requested count, pool size); the loop exits
\* exactly when the drawn set has that size, which is the size of the result.
C9_DrawLoop ==
    [][ /\ C9_LoopState'
        /\ (pc = "loop" => unique_ips \subseteq unique_ips')
        /\ (pc = "loop" => (pc' = "returned" <=> Cardinality(unique_ips) = EffectiveCount))
      ]_vars

\* ten of twelve pooled addresses were drawn and returned
C9_Witness ==
    /\ Returned
    /\ requested = MinCount
    /\ Len(all_ips) > requested
    /\ BagCardinality(result) = requested

(***************************************************************************)
(* check_urls.py: main's loop over the URLs and check_url                  *)
(***************************************************************************)
\* a URL of input.csv: its text, and whether requests.utils.urlparse raises on it
Url(t, bad) == [text |-> t, parse_error |-> bad]
UrlInputs == { Url("http://a.example", FALSE), Url("http://[a.example", TRUE) }

\* what a server may answer: a status and the Location header (<<>> when absent)
Statuses == {200, 301, 302, 500}
LocationHeaders == { <<>>, <<"">>, <<"http://b.example">> }
Responses == [status : Statuses, location : LocationHeaders]

\* response.headers.get('Location', '')
HeaderGet(h) == IF h = <<>> THEN "" ELSE h[1]

\* mutant of RedirectTarget: every 3xx status is taken for a redirect
RedirectTarget_Any3xx(resp) ==
    IF resp.status \in 300..399 THEN HeaderGet(resp.location) ELSE ""

\* line 30: response.headers.get('Location', '') if status_code == 302 else ''
RedirectTarget(resp) == IF resp.status = 302 THEN HeaderGet(resp.location) ELSE ""

\* a requests.get call as the network saw it: <<>> for an exception, <<response>> otherwise
Call(u, answer) == [url |-> u, answer |-> answer]

InitUrls ==
    /\ urls \in SeqsUpTo(UrlInputs, MaxUrls)
    /\ u_idx = 0
    /\ rows = <<>>
    /\ url = <<>>
    /\ ping_ok = FALSE
    /\ status_code = S("N/A")
    /\ elapsed = 0
    /\ redirect_url = ""
    /\ redirect_status_code = S("")
    /\ http_log = <<>>
    /\ upc = "main"

\* the row check_url returns (line 44-50)
Row == [url |-> url[1].text,
        ping |-> IF ping_ok THEN "yes" ELSE "no",
        status |-> status_code,
        elapsed |-> elapsed,
        redirect_url |-> redirect_url,
        redirect_status |-> redirect_status_code]

\* line 53: the row of a URL that could not be parsed
ParseFailedRow == [url |-> url[1].text, ping |-> "no", status |-> S("parse_failed"),
                   elapsed |-> 0, redirect_url |-> "", redirect_status |-> S("")]

\* main line 83-85: the next URL is handed to check_url
CallCheckUrl ==
    /\ upc = "main"
    /\ u_idx < Len(urls)
    /\ url' = <<urls[u_idx + 1]>>
    /\ http_log' = <<>>
    /\ upc' = "parse"
    /\ UNCHANGED <<urls, u_idx, rows, ping_ok, status_code, elapsed, redirect_url,
                   redirect_status_code>>
    /\ UNCHANGED <<ipvars, scanvars>>

\* line 14-15 (and 52-53, 86 when urlparse raises)
ParseUrl ==
    /\ upc = "parse"
    /\ IF url[1].parse_error
       THEN /\ rows' = Append(rows, ParseFailedRow)
            /\ u_idx' = u_idx + 1
            /\ upc' = "main"
       ELSE /\ rows' = rows
            /\ u_idx' = u_idx
            /\ upc' = "ping"
    /\ UNCHANGED <<urls, url, ping_ok, status_code, elapsed, redirect_url,
                   redirect_status_code, http_log>>
    /\ UNCHANGED <<ipvars, scanvars>>

\* line 18-24: check_ping answers either way; the HTTP locals are initialised
Ping ==
    /\ upc = "ping"
    /\ ping_ok' \in BOOLEAN
    /\ status_code' = S("N/A")
    /\ redirect_url' = ""
    /\ upc' = "get"
    /\ UNCHANGED <<urls, u_idx, rows, url, elapsed, redirect_status_code, http_log>>
    /\ UNCHANGED <<ipvars, scanvars>>

\* line 26 raises: line 40-42
FirstGetFails ==
    /\ upc = "get"
    /\ http_log' = Append(http_log, Call(url[1].text, <<>>))
    /\ elapsed' = 0
    /\ redirect_status_code' = S("")
    /\ upc' = "return"
    /\ UNCHANGED <<urls, u_idx, rows, url, ping_ok, status_code, redirect_url>>
    /\ UNCHANGED <<ipvars, scanvars>>

\* line 26-33: the first request is answered
FirstGet ==
    /\ upc = "get"
    /\ \E resp \in Responses :
         /\ http_log' = Append(http_log, Call(url[1].text, <<resp>>))
         /\ status_code' = I(resp.status)
         /\ redirect_url' = RedirectTarget(resp)
         /\ redirect_status_code' = S("")
         /\ upc' = IF RedirectTarget(resp) # "" THEN "redirect" ELSE "elapsed"
    /\ UNCHANGED <<urls, u_idx, rows, url, ping_ok, elapsed>>
    /\ UNCHANGED <<ipvars, scanvars>>

\* line 34-38: the request to the redirect target, answered or failing
SecondGet ==
    /\ upc = "redirect"
    /\ \/ \E resp \in Responses :
            /\ http_log' = Append(http_log, Call(redirect_url, <<resp>>))
            /\ redirect_status_code' = I(resp.status)
       \/ /\ http_log' = Append(http_log, Call(redirect_url, <<>>))
          /\ redirect_status_code' = S("visit_failed")
    /\ upc' = "elapsed"
    /\ UNCHANGED <<urls, u_idx, rows, url, ping_ok, status_code, elapsed, redirect_url>>
    /\ UNCHANGED <<ipvars, scanvars>>

\* line 39: elapsed = round((time.time()-start_time)*1000, 2)
Elapsed ==
    /\ upc = "elapsed"
    /\ elapsed' \in 0..MaxElapsed
    /\ upc' = "return"
    /\ UNCHANGED <<urls, u_idx, rows, url, ping_ok, status_code, redirect_url,
                   redirect_status_code, http_log>>
    /\ UNCHANGED <<ipvars, scanvars>>

\* line 44-50 and main line 86: the row is returned and written
ReturnRow ==
    /\ upc = "return"
    /\ rows' = Append(rows, Row)
    /\ u_idx' = u_idx + 1
    /\ upc' = "main"
    /\ UNCHANGED <<urls, url, ping_ok, status_code, elapsed, redirect_url,
                   redirect_status_code, http_log>>
    /\ UNCHANGED <<ipvars, scanvars>>

\* main line 90 on: every URL has its row; the report is printed
Report ==
    /\ upc = "main"
    /\ u_idx = Len(urls)
    /\ upc' = "done"
    /\ UNCHANGED <<urls, u_idx, rows, url, ping_ok, status_code, elapsed, redirect_url,
                   redirect_status_code, http_log>>
    /\ UNCHANGED <<ipvars, scanvars>>

NextUrls == CallCheckUrl \/ ParseUrl \/ Ping \/ FirstGetFails \/ FirstGet \/ SecondGet
            \/ Elapsed \/ ReturnRow \/ Report

\* check_urls.py is run; the other scripts are not running
InitSpecUrls == InitUrls /\ IdleIpGen /\ IdleScan

SpecUrls == InitSpecUrls /\ [][NextUrls]_vars

\* C8: check_url follows at most one redirect hop: at most two requests per URL,
\* the second only to the Location of a first response with status 302 and a
\* non-empty Location, whatever the second response says; and a row's
\* redirect status is non-empty only when its redirect location is non-empty.
C8_AtMostOneHop ==
    /\ Len(http_log) <= 2
    /\ (Len(http_log) = 2
        => /\ http_log[1].answer # <<>>
           /\ http_log[1].answer[1].status = 302
           /\ HeaderGet(http_log[1].answer[1].location) # ""
           /\ http_log[2].url = HeaderGet(http_log[1].answer[1].location))
    /\ (upc \in {"elapsed", "return"} /\ redirect_status_code # S("") => redirect_url # "")
    /\ \A k \in 1..Len(rows) : rows[k].redirect_status # S("") => rows[k].redirect_url # ""

\* the redirect target itself answered 302 with a Location, and the row was written
C8_Witness ==
    /\ upc = "main"
    /\ Len(http_log) = 2
    /\ http_log[2].answer # <<>>
    /\ http_log[2].answer[1].status = 302
    /\ HeaderGet(http_log[2].answer[1].location) # ""
    /\ rows # <<>>
    /\ rows[Len(rows)].redirect_status = I(302)

(***************************************************************************)
(* AINmap/scan_analyzer.py: main                                           *)
(***************************************************************************)
\* Text is kept as the sequence of its characters' code points (ord), so that
\* every character of a target can be told from every other one.
\* lines of targets.txt as the file iterator yields them, each ending with its
\* line feed
LineInputs ==
    { <<10>>,                       \* "\n"
      <<32, 12288, 10>>,            \* " \u3000\n"     (blank)
      <<104, 10>>,                  \* "h\n"
      <<9, 104, 160, 10>>,          \* "\th\xa0\n"     (target h)
      <<233, 10>>,                  \* "\xe9\n"        (target \xe9)
      <<110, 47, 56, 10>>,          \* "n/8\n"
      <<110, 92, 56, 10>>,          \* "n\8\n"
      <<110, 95, 56, 10>> }         \* "n_8\n"

\* the characters str.strip() removes: those for which str.isspace() is true
Whitespace ==
    (9..13) \cup (28..32) \cup {133, 160, 5760} \cup (8192..8202)
        \cup {8232, 8233, 8239, 8287, 12288}

\* str.lstrip(), str.rstrip(), str.strip(): leading and trailing white space removed
RECURSIVE LStrip(_)
LStrip(l) == IF l # <<>> /\ Head(l) \in Whitespace THEN LStrip(Tail(l)) ELSE l
RECURSIVE RStrip(_)
RStrip(l) ==
    IF l # <<>> /\ l[Len(l)] \in Whitespace THEN RStrip(SubSeq(l, 1, Len(l) - 1)) ELSE l
Strip(l) == RStrip(LStrip(l))

\* line 118: targets = [line.strip() for line in f if line.strip()]
RECURSIVE ReadTargets(_)
ReadTargets(ls) ==
    IF ls = <<>> THEN <<>>
    ELSE IF Strip(Head(ls)) # <<>> THEN <<Strip(Head(ls))>> \o ReadTargets(Tail(ls))
    ELSE ReadTargets(Tail(ls))

\* line 90: f"report_{target.replace('/', '_').replace('\\', '_')}.md"
\* ord('/'), ord('\\') and ord('_')
Slash == 47
Backslash == 92
Underscore == 95
\* "report_" and ".md"
ReportPrefix == <<114, 101, 112, 111, 114, 116, 95>>
ReportSuffix == <<46, 109, 100>>
ReportName(t) ==
    ReportPrefix
      \o [k \in 1..Len(t) |-> IF t[k] \in {Slash, Backslash} THEN Underscore ELSE t[k]]
      \o ReportSuffix

\* run_nmap_scan (line 56-74): the three handlers return None, else result.stdout,
\* which is well-formed XML or not
ScanAnswers == {"called_process_error", "timeout", "other_error", "stdout_xml", "stdout_not_xml"}
ScanOutput(a) ==
    IF a = "stdout_xml" THEN <<[wellformed |-> TRUE]>>
    ELSE IF a = "stdout_not_xml" THEN <<[wellformed |-> FALSE]>>
    ELSE <<>>

\* analyze_with_ollama (line 77-100): the request to Ollama fails, the report file
\* cannot be opened, writing it fails after it was opened, or the report is saved
AnalysisAnswers == {"ollama_error", "open_error", "write_error", "saved"}

InitScan ==
    /\ f_string_ok \in BOOLEAN
    /\ nmap_installed \in BOOLEAN
    /\ targets_file \in {<<>>} \cup { <<ls>> : ls \in SeqsUpTo(LineInputs, MaxLines) }
    /\ targets = <<>>
    /\ t_idx = 0
    /\ xml_output = <<>>
    /\ scans = <<>>
    /\ outcomes = <<>>
    /\ files = {}
    /\ spc = "compile"

\* the module is compiled before anything runs; line 90 is a syntax error to an
\* interpreter that rejects a backslash inside an f-string expression
Compile ==
    /\ spc = "compile"
    /\ spc' = IF f_string_ok THEN "start" ELSE "syntax_error"
    /\ UNCHANGED <<f_string_ok, nmap_installed, targets_file, targets, t_idx, xml_output,
                   scans, outcomes, files>>
    /\ UNCHANGED <<ipvars, urlvars>>

\* main line 105-126: the checks before the loop, each ending in sys.exit(1)
Startup ==
    /\ spc = "start"
    /\ IF ~nmap_installed \/ targets_file = <<>>
       THEN /\ targets' = targets
            /\ spc' = "exit_1"
       ELSE /\ targets' = ReadTargets(targets_file[1])
            /\ spc' = IF ReadTargets(targets_file[1]) = <<>> THEN "exit_1" ELSE "loop"
    /\ UNCHANGED <<f_string_ok, nmap_installed, targets_file, t_idx, xml_output,
                   scans, outcomes, files>>
    /\ UNCHANGED <<ipvars, urlvars>>

\* line 129-133: the next target is scanned
Scan ==
    /\ spc = "loop"
    /\ t_idx < Len(targets)
    /\ \E a \in ScanAnswers :
         /\ xml_output' = ScanOutput(a)
         /\ outcomes' = Append(outcomes, [scan |-> a, analysis |-> "none"])
    /\ scans' = Append(scans, targets[t_idx + 1])
    /\ spc' = "scanned"
    /\ UNCHANGED <<f_string_ok, nmap_installed, targets_file, targets, t_idx, files>>
    /\ UNCHANGED <<ipvars, urlvars>>

\* mutant of CheckScan: break for continue
CheckScan_BreakOnFailure ==
    /\ spc = "scanned"
    /\ IF xml_output = <<>>
       THEN /\ t_idx' = t_idx + 1
            /\ spc' = "done"
       ELSE /\ t_idx' = t_idx
            /\ spc' = "validate"
    /\ UNCHANGED <<f_string_ok, nmap_installed, targets_file, targets, xml_output,
                   scans, outcomes, files>>
    /\ UNCHANGED <<ipvars, urlvars>>

\* line 136-138: if xml_output is None: continue
CheckScan ==
    /\ spc = "scanned"
    /\ IF xml_output = <<>>
       THEN /\ t_idx' = t_idx + 1
            /\ spc' = "loop"
       ELSE /\ t_idx' = t_idx
            /\ spc' = "validate"
    /\ UNCHANGED <<f_string_ok, nmap_installed, targets_file, targets, xml_output,
                   scans, outcomes, files>>
    /\ UNCHANGED <<ipvars, urlvars>>

\* line 141-145: ET.fromstring(xml_output); on ParseError: continue
ValidateXml ==
    /\ spc = "validate"
    /\ IF xml_output[1].wellformed
       THEN /\ t_idx' = t_idx
            /\ spc' = "analyze"
       ELSE /\ t_idx' = t_idx + 1
            /\ spc' = "loop"
    /\ UNCHANGED <<f_string_ok, nmap_installed, targets_file, targets, xml_output,
                   scans, outcomes, files>>
    /\ UNCHANGED <<ipvars, urlvars>>

\* the files after open(filename, 'w') and, when it succeeds, f.write(report)
Written(name, target, complete) ==
    { f \in files : f.name # name } \cup {[name |-> name, target |-> target, complete |-> complete]}

\* line 148-151: analyze_with_ollama; the loop goes on whatever it returns
Analyze ==
    /\ spc = "analyze"
    /\ \E a \in AnalysisAnswers :
         /\ outcomes' = [outcomes EXCEPT ![Len(outcomes)].analysis = a]
         /\ files' = IF a \in {"write_error", "saved"}
                     THEN Written(ReportName(targets[t_idx + 1]), targets[t_idx + 1], a = "saved")
                     ELSE files
    /\ t_idx' = t_idx + 1
    /\ spc' = "loop"
    /\ UNCHANGED <<f_string_ok, nmap_installed, targets_file, targets, xml_output, scans>>
    /\ UNCHANGED <<ipvars, urlvars>>

\* line 153: the loop is over
Finish ==
    /\ spc = "loop"
    /\ t_idx = Len(targets)
    /\ spc' = "done"
    /\ UNCHANGED <<f_string_ok, nmap_installed, targets_file, targets, t_idx, xml_output,
                   scans, outcomes, files>>
    /\ UNCHANGED <<ipvars, urlvars>>

NextScan == Compile \/ Startup \/ Scan \/ CheckScan \/ ValidateXml \/ Analyze \/ Finish

\* scan_analyzer.py is run; the other scripts are not running
InitSpecScan == InitScan /\ IdleIpGen /\ IdleUrls

SpecScan == InitSpecScan /\ [][NextScan]_vars

InTarget == spc \in {"scanned", "validate", "analyze"}

\* C10: in the main loop every target is attempted exactly once in file order, a
\* failure for one target never keeps the later ones from being processed, and a
\* report file exists only for a target whose scan returned well-formed XML.
C10_EveryTargetOnceInOrder ==
    spc \in {"loop", "scanned", "validate", "analyze", "done"}
    => /\ targets = ReadTargets(targets_file[1])
       /\ Len(scans) = t_idx + (IF InTarget THEN 1 ELSE 0)
       /\ scans = SubSeq(targets, 1, Len(scans))
       /\ (spc = "done" => scans = targets)
       /\ \A f \in files :
            \E k \in 1..Len(outcomes) :
               /\ targets[k] = f.target
               /\ ReportName(targets[k]) = f.name
               /\ outcomes[k].scan = "stdout_xml"

\* the first target's scan failed, and the second target's report was still saved
C10_Witness ==
    /\ spc = "done"
    /\ Len(targets) = 2
    /\ outcomes[1].scan \in {"called_process_error", "timeout", "other_error", "stdout_not_xml"}
    /\ outcomes[2].analysis = "saved"
    /\ \E f \in files : f.target = targets[2] /\ f.complete

====
